---- MODULE Spec2Model ----
(***************************************************************************)
(* Model of ntyazid/secure-stream (src/stream.go): relaying an AES-CTR     *)
(* byte resource to an http.ResponseWriter, optionally for a byte range,   *)
(* with the IV's counter advanced to the range's offset.                   *)
(*                                                                         *)
(* Bytes are 0..255, byte strings are sequences of bytes, and text (header *)
(* values) is a sequence of one-character strings.  A 16-byte IV is kept   *)
(* at its real width: all counter arithmetic is done on the bytes.         *)
(***************************************************************************)
EXTENDS Integers, Sequences, FiniteSets, TLC

\* ------------------------------------------------------------------ bounds

\* Size of the largest resource relayed (bytes).
MaxSize == 40

\* ------------------------------------------------------- program constants

BlockSize == 16
StatusOK == 200
StatusPartialContent == 206

\* ------------------------------------------------------------------- bytes

RECURSIVE Xor(_, _)
\* Bitwise exclusive or of two naturals (the ^ of cipher.StreamReader's
\* XORKeyStream).
Xor(a, b) ==
  IF a = 0 THEN b
  ELSE IF b = 0 THEN a
  ELSE (((a % 2) + (b % 2)) % 2) + (2 * Xor(a \div 2, b \div 2))

Zeros(n) == [i \in 1..n |-> 0]
Ones(n) == [i \in 1..n |-> 255]

\* ---------------------------------------------- 64-bit counter arithmetic

\* binary.BigEndian.Uint64: the eight bytes as an unsigned 64-bit value,
\* held as four 16-bit limbs, most significant first.
BigEndianUint64(b) == [i \in 1..4 |-> (b[(2 * i) - 1] * 256) + b[2 * i]]

\* uint64 addition (counter += uint64(blockOffset)): the carry out of the
\* most significant limb is lost, as in Go's unsigned arithmetic.
AddUint64(c, n) ==
  LET s4 == c[4] + n
      s3 == c[3] + (s4 \div 65536)
      s2 == c[2] + (s3 \div 65536)
      s1 == c[1] + (s2 \div 65536)
  IN <<s1 % 65536, s2 % 65536, s3 % 65536, s4 % 65536>>

\* binary.BigEndian.PutUint64: the value back as eight bytes.
PutUint64(c) ==
  [i \in 1..8 |-> IF i % 2 = 1 THEN c[(i + 1) \div 2] \div 256
                               ELSE c[i \div 2] % 256]

\* A bug adjustIVForOffset could have: the counter advanced by the byte
\* offset instead of the block offset.
adjustIVForOffset_Bytes(originalIV, offset) ==
  IF Len(originalIV) # 16
    THEN [panic |-> TRUE, newIV |-> <<>>, originalIV |-> originalIV]
    ELSE [panic |-> FALSE,
          newIV |-> SubSeq(originalIV, 1, 8) \o
                    PutUint64(AddUint64(BigEndianUint64(SubSeq(originalIV, 9, 16)),
                                        offset)),
          originalIV |-> originalIV]

\* adjustIVForOffset: panics unless the IV has 16 bytes; otherwise a fresh
\* 16-byte slice, the IV's copy with its trailing 8 bytes replaced by
\* counter + offset / 16.  originalIV is the caller's slice after the call.
adjustIVForOffset(originalIV, offset) ==
  IF Len(originalIV) # 16
    THEN [panic |-> TRUE, newIV |-> <<>>, originalIV |-> originalIV]
    ELSE LET blockOffset == offset \div BlockSize
             newIV0 == originalIV
             counter == BigEndianUint64(SubSeq(originalIV, 9, 16))
             counter1 == AddUint64(counter, blockOffset)
         IN [panic |-> FALSE,
             newIV |-> SubSeq(newIV0, 1, 8) \o PutUint64(counter1),
             originalIV |-> originalIV]

\* ------------------------------------------------------------ block cipher

\* aes.NewCipher: a key of 16, 24 or 32 bytes gives a block; any other
\* length is aes.KeySizeError.
NewCipher(key) ==
  IF Len(key) \in {16, 24, 32}
    THEN [err |-> "nil", key |-> key]
    ELSE [err |-> "crypto/aes: invalid key size", key |-> <<>>]

RECURSIVE RunningSum(_, _, _, _)
\* One mixing pass over a block: out[i] = out[i-1] + blk[i] + key byte + i,
\* modulo 256 (acc is the output so far, i the next index).
RunningSum(key, blk, acc, i) ==
  IF i > Len(blk) THEN acc
  ELSE LET prev == IF i = 1 THEN 0 ELSE acc[i - 1]
           k == key[((i - 1) % Len(key)) + 1]
       IN RunningSum(key, blk, Append(acc, (prev + blk[i] + k + i) % 256), i + 1)

Reverse(s) == [i \in 1..Len(s) |-> s[(Len(s) + 1) - i]]

\* Block.Encrypt.  AES itself is abstracted to what the relay relies on: a
\* keyed bijection of 16-byte blocks in which every output byte depends on
\* every input byte (a running sum forward, then one backward).
Encrypt(key, blk) ==
  Reverse(RunningSum(key, Reverse(RunningSum(key, blk, <<>>, 1)), <<>>, 1))

RECURSIVE IncCounter(_, _)
\* The counter increment of crypto/cipher's CTR: byte i of the counter is
\* incremented, and while it wraps to 0 the carry moves to the byte before
\* it, through all 16 bytes of the block.
IncCounter(ctr, i) ==
  IF i = 0 THEN ctr
  ELSE LET b == (ctr[i] + 1) % 256
           c == [ctr EXCEPT ![i] = b]
       IN IF b # 0 THEN c ELSE IncCounter(c, i - 1)

RECURSIVE KeyStream(_, _, _)
\* The first n keystream bytes (rounded up to whole blocks) of a CTR stream
\* whose counter block is ctr: Encrypt(ctr), Encrypt(ctr+1), ...
KeyStream(key, ctr, n) ==
  IF n <= 0 THEN <<>>
  ELSE Encrypt(key, ctr) \o KeyStream(key, IncCounter(ctr, Len(ctr)), n - BlockSize)

RECURSIVE XorSeq(_, _, _, _)
XorSeq(src, ks, acc, p) ==
  IF p > Len(src) THEN acc
  ELSE XorSeq(src, ks, Append(acc, Xor(src[p], ks[p])), p + 1)

\* cipher.StreamReader{S: cipher.NewCTR(block, iv), R: src} read to the
\* end: src XOR the keystream of cipher.NewCTR(block, iv) from its first
\* byte on.
XORKeyStream(key, iv, src) ==
  XorSeq(src, KeyStream(key, iv, Len(src)), <<>>, 1)

\* io.NewSectionReader(data, off, n) read to the end: the bytes of data in
\* [off, off+n), cut at the end of data.
NewSectionReader(data, off, n) ==
  LET last == IF off + n < Len(data) THEN off + n ELSE Len(data)
  IN SubSeq(data, off + 1, last)

\* -------------------------------------------------------------------- text

Digits == <<"0", "1", "2", "3", "4", "5", "6", "7", "8", "9">>
IsDigit(c) == \E i \in 1..10 : Digits[i] = c
DigitVal(c) == (CHOOSE i \in 1..10 : Digits[i] = c) - 1

BytesEq == <<"b", "y", "t", "e", "s", "=">>
BytesSp == <<"b", "y", "t", "e", "s", " ">>

\* strings.HasPrefix and strings.TrimPrefix.
HasPrefix(s, prefix) ==
  Len(s) >= Len(prefix) /\ SubSeq(s, 1, Len(prefix)) = prefix
TrimPrefix(s, prefix) ==
  IF HasPrefix(s, prefix) THEN SubSeq(s, Len(prefix) + 1, Len(s)) ELSE s

RECURSIVE SplitFrom(_, _, _, _)
\* strings.Split(s, sep) for a one-character sep: cur is the field being
\* read, acc the fields closed so far.
SplitFrom(s, sep, acc, cur) ==
  IF s = <<>> THEN Append(acc, cur)
  ELSE IF Head(s) = sep THEN SplitFrom(Tail(s), sep, Append(acc, cur), <<>>)
  ELSE SplitFrom(Tail(s), sep, acc, Append(cur, Head(s)))
Split(s, sep) == SplitFrom(s, sep, <<>>, <<>>)

RECURSIVE DecimalValue(_, _)
DecimalValue(ds, acc) ==
  IF ds = <<>> THEN acc ELSE DecimalValue(Tail(ds), (acc * 10) + DigitVal(Head(ds)))

\* strconv.ParseInt(s, 10, 64): an optional sign, then one or more decimal
\* digits and nothing else; anything else is a syntax error with value 0.
\* (Values outside int64 need over 18 digits and are outside the inputs.)
ParseInt(s) ==
  LET signed == s # <<>> /\ Head(s) \in {"+", "-"}
      ds == IF signed THEN Tail(s) ELSE s
  IN IF ds = <<>> \/ \E i \in 1..Len(ds) : ~IsDigit(ds[i])
       THEN [val |-> 0, err |-> "strconv.ParseInt: invalid syntax"]
       ELSE [val |-> IF signed /\ Head(s) = "-" THEN 0 - DecimalValue(ds, 0)
                                                 ELSE DecimalValue(ds, 0),
             err |-> "nil"]

RECURSIVE FormatNat(_)
FormatNat(n) ==
  IF n < 10 THEN <<Digits[n + 1]>>
  ELSE Append(FormatNat(n \div 10), Digits[(n % 10) + 1])
\* fmt's %d of an int64.
FormatInt(n) == IF n < 0 THEN <<"-">> \o FormatNat(0 - n) ELSE FormatNat(n)

\* fmt.Sprintf("bytes %d-%d/%d", a, b, c).
SprintfContentRange(a, b, c) ==
  BytesSp \o FormatInt(a) \o <<"-">> \o FormatInt(b) \o <<"/">> \o FormatInt(c)

RECURSIVE SkipSpace(_)
SkipSpace(s) == IF s # <<>> /\ Head(s) = " " THEN SkipSpace(Tail(s)) ELSE s

RECURSIVE LeadingDigits(_)
LeadingDigits(s) ==
  IF s # <<>> /\ IsDigit(Head(s)) THEN <<Head(s)>> \o LeadingDigits(Tail(s)) ELSE <<>>

\* One %d of fmt.Sscanf: leading spaces are skipped, then an optional sign
\* and the longest run of digits (at least one) are read.
ScanInt(s0) ==
  LET s == SkipSpace(s0)
      signed == s # <<>> /\ Head(s) \in {"+", "-"}
      t == IF signed THEN Tail(s) ELSE s
      ds == LeadingDigits(t)
  IN IF ds = <<>> THEN [ok |-> FALSE, val |-> 0, rest |-> t]
     ELSE [ok |-> TRUE,
           val |-> IF signed /\ Head(s) = "-" THEN 0 - DecimalValue(ds, 0)
                                               ELSE DecimalValue(ds, 0),
           rest |-> SubSeq(t, Len(ds) + 1, Len(t))]

\* fmt.Sscanf(cr, "bytes %d-%d/%d", &start, &end, &size): err and the three
\* values (input after the third number is not looked at).
SscanfContentRange(cr) ==
  LET fail == [err |-> "fmt: input does not match format", start |-> 0, end |-> 0, size |-> 0]
      word == SubSeq(BytesSp, 1, 5)
  IN IF ~HasPrefix(cr, word) THEN fail
     ELSE LET a == ScanInt(TrimPrefix(cr, word)) IN
       IF ~a.ok \/ ~HasPrefix(a.rest, <<"-">>) THEN fail
       ELSE LET b == ScanInt(Tail(a.rest)) IN
         IF ~b.ok \/ ~HasPrefix(b.rest, <<"/">>) THEN fail
         ELSE LET c == ScanInt(Tail(b.rest)) IN
           IF ~c.ok THEN fail
           ELSE [err |-> "nil", start |-> a.val, end |-> b.val, size |-> c.val]

\* ----------------------------------------------------------- range parsing

\* parseRangeOffset: the start offset of a Range header.
parseRangeOffset(rangeHeader) ==
  IF ~HasPrefix(rangeHeader, BytesEq) THEN [val |-> 0, err |-> "nil"]
  ELSE LET rangePart == TrimPrefix(rangeHeader, BytesEq)
           parts == Split(rangePart, "-")
       IN IF Len(parts) # 2 THEN [val |-> 0, err |-> "Invalid range format."]
          ELSE ParseInt(parts[1])

\* A bug parseByteRange could have: the bound checked as end > size.
parseByteRange_OffByOne(byteRange, size) ==
  IF byteRange = <<>> THEN [start |-> 0, length |-> size, err |-> "nil"]
  ELSE IF ~HasPrefix(byteRange, BytesEq)
    THEN [start |-> 0, length |-> 0, err |-> "invalid range header"]
  ELSE LET rangeParts == Split(TrimPrefix(byteRange, BytesEq), "-") IN
    IF Len(rangeParts) # 2
      THEN [start |-> 0, length |-> 0, err |-> "invalid range format"]
    ELSE LET start == ParseInt(rangeParts[1])
             end == ParseInt(rangeParts[2]) IN
      IF start.err # "nil" THEN [start |-> 0, length |-> 0, err |-> "invalid start byte"]
      ELSE IF end.err # "nil" THEN [start |-> 0, length |-> 0, err |-> "invalid end byte"]
      ELSE IF start.val > end.val \/ end.val > size
        THEN [start |-> 0, length |-> 0, err |-> "range out of bounds"]
      ELSE [start |-> start.val, length |-> (end.val - start.val) + 1, err |-> "nil"]

\* parseByteRange: (start, length) of a Range header against a resource of
\* size bytes.
parseByteRange(byteRange, size) ==
  IF byteRange = <<>> THEN [start |-> 0, length |-> size, err |-> "nil"]
  ELSE IF ~HasPrefix(byteRange, BytesEq)
    THEN [start |-> 0, length |-> 0, err |-> "invalid range header"]
  ELSE LET rangeParts == Split(TrimPrefix(byteRange, BytesEq), "-") IN
    IF Len(rangeParts) # 2
      THEN [start |-> 0, length |-> 0, err |-> "invalid range format"]
    ELSE LET start == ParseInt(rangeParts[1])
             end == ParseInt(rangeParts[2]) IN
      IF start.err # "nil" THEN [start |-> 0, length |-> 0, err |-> "invalid start byte"]
      ELSE IF end.err # "nil" THEN [start |-> 0, length |-> 0, err |-> "invalid end byte"]
      ELSE IF start.val > end.val \/ end.val >= size
        THEN [start |-> 0, length |-> 0, err |-> "range out of bounds"]
      ELSE [start |-> start.val, length |-> (end.val - start.val) + 1, err |-> "nil"]

\* -------------------------------------------------------------------- sink

HeaderNames == {"Content-Type", "Content-Range", "Content-Length", "Accept-Ranges"}
NoHeaders == [h \in HeaderNames |-> <<>>]

\* A fresh http.ResponseWriter: header is the live map w.Header() returns,
\* sent the header block as it was committed with the status.
NewRecorder ==
  [header |-> NoHeaders, wroteHeader |-> FALSE, status |-> 0,
   sent |-> NoHeaders, body |-> <<>>]

\* w.Header().Set(name, value): the live map changes; a header block that
\* was already committed does not.
HeaderSet(w, name, value) == [w EXCEPT !.header[name] = value]

\* w.WriteHeader(code): commits the status and a snapshot of the headers;
\* a second call changes nothing.
WriteHeader(w, code) ==
  IF w.wroteHeader THEN w
  ELSE [w EXCEPT !.wroteHeader = TRUE, !.status = code, !.sent = w.header]

\* io.Copy(w, reader) of a reader that yields bytes: no Write is made for an
\* empty stream; the first Write commits status 200 if none was written.
\* The sink takes every byte, as httptest.ResponseRecorder does: a declared
\* Content-Length is not enforced against the body.
Copy(w, bytes) ==
  IF bytes = <<>> THEN w
  ELSE LET w1 == WriteHeader(w, StatusOK) IN [w1 EXCEPT !.body = w1.body \o bytes]

\* ------------------------------------------------------------------ relays

OctetStream == <<"application/octet-stream">>
Pdf == <<"application/pdf">>
BytesUnit == <<"bytes">>
NoIV == <<>>

\* What a relay leaves behind: the sink, the returned error ("nil" for
\* none, "panic" for a panic) and the IV its CTR stream was started from.
Return(w, err, adjustedIV) == [w |-> w, err |-> err, adjustedIV |-> adjustedIV]

\* StreamFromUrl.  resp is what http.DefaultClient.Do returned.
StreamFromUrl(w, resp, key, iv) ==
  IF resp.err # "nil" THEN Return(w, resp.err, NoIV)
  ELSE LET block == NewCipher(key) IN
    IF block.err # "nil" THEN Return(w, block.err, NoIV)
    ELSE IF Len(iv) # BlockSize THEN Return(w, "panic", NoIV)
    ELSE LET w1 == WriteHeader(w, StatusOK)
             w2 == HeaderSet(w1, "Content-Type", OctetStream)
         IN Return(Copy(w2, XORKeyStream(block.key, iv, resp.Body)), "nil", iv)

\* StreamFromUrlWithRange.  resp is upstream's reply to the request that
\* carried byteRange as its Range header.
StreamFromUrlWithRange(w, resp, key, iv, byteRange) ==
  IF resp.err # "nil" THEN Return(w, resp.err, NoIV)
  ELSE
    LET cr == resp.ContentRange
        cl == resp.ContentLengthHeader
        scanned == SscanfContentRange(cr)
        totalSize == IF cr # <<>>
                       THEN (IF scanned.err = "nil" THEN scanned.size ELSE 0)
                       ELSE IF cl # <<>> THEN ParseInt(cl).val ELSE 0
        offset == parseRangeOffset(byteRange)
    IN IF offset.err # "nil" THEN Return(w, offset.err, NoIV)
       ELSE LET adjusted == adjustIVForOffset(iv, offset.val) IN
         IF adjusted.panic THEN Return(w, "panic", NoIV)
         ELSE LET block == NewCipher(key) IN
           IF block.err # "nil" THEN Return(w, block.err, adjusted.newIV)
           ELSE
             LET chunkLen == resp.ContentLength
                 end == (offset.val + chunkLen) - 1
                 w1 == IF byteRange # <<>> /\ resp.StatusCode = StatusPartialContent
                         THEN WriteHeader(
                                HeaderSet(
                                  HeaderSet(
                                    HeaderSet(
                                      HeaderSet(w, "Content-Range",
                                                SprintfContentRange(offset.val, end, totalSize)),
                                      "Content-Length", FormatInt(chunkLen)),
                                    "Accept-Ranges", BytesUnit),
                                  "Content-Type", Pdf),
                                StatusPartialContent)
                         ELSE WriteHeader(
                                HeaderSet(
                                  HeaderSet(
                                    HeaderSet(w, "Content-Length", FormatInt(totalSize)),
                                    "Accept-Ranges", BytesUnit),
                                  "Content-Type", Pdf),
                                StatusOK)
             IN Return(Copy(w1, XORKeyStream(block.key, adjusted.newIV, resp.Body)),
                       "nil", adjusted.newIV)

\* StreamFromByte.
StreamFromByte(w, data, size, key, iv) ==
  LET block == NewCipher(key) IN
  IF block.err # "nil" THEN Return(w, block.err, NoIV)
  ELSE IF Len(iv) # BlockSize THEN Return(w, "panic", NoIV)
  ELSE LET sectionReader == NewSectionReader(data, 0, size)
           w1 == WriteHeader(w, StatusOK)
           w2 == HeaderSet(w1, "Content-Type", OctetStream)
       IN Return(Copy(w2, XORKeyStream(block.key, iv, sectionReader)), "nil", iv)

\* A bug StreamFromByteWithRange could have: the status written before the
\* range and the key are checked.
StreamFromByteWithRange_Eager(w, data, size, key, iv, byteRange) ==
  LET w0 == WriteHeader(w, IF byteRange # <<>> THEN StatusPartialContent ELSE StatusOK)
      range == parseByteRange(byteRange, size)
  IN IF range.err # "nil" THEN Return(w0, range.err, NoIV)
     ELSE LET adjusted == adjustIVForOffset(iv, range.start) IN
       IF adjusted.panic THEN Return(w0, "panic", NoIV)
       ELSE LET block == NewCipher(key) IN
         IF block.err # "nil" THEN Return(w0, block.err, adjusted.newIV)
         ELSE LET sectionReader == NewSectionReader(data, range.start, range.length)
                  w2 == HeaderSet(w0, "Content-Type", OctetStream)
              IN Return(Copy(w2, XORKeyStream(block.key, adjusted.newIV, sectionReader)),
                        "nil", adjusted.newIV)

\* Another: the CTR stream started from the original IV, not the adjusted
\* one.
StreamFromByteWithRange_PlainIV(w, data, size, key, iv, byteRange) ==
  LET range == parseByteRange(byteRange, size) IN
  IF range.err # "nil" THEN Return(w, range.err, NoIV)
  ELSE IF Len(iv) # BlockSize THEN Return(w, "panic", NoIV)
  ELSE LET block == NewCipher(key) IN
    IF block.err # "nil" THEN Return(w, block.err, iv)
    ELSE LET sectionReader == NewSectionReader(data, range.start, range.length)
             w1 == WriteHeader(w, IF byteRange # <<>> THEN StatusPartialContent ELSE StatusOK)
             w2 == HeaderSet(w1, "Content-Type", OctetStream)
         IN Return(Copy(w2, XORKeyStream(block.key, iv, sectionReader)), "nil", iv)

\* StreamFromByteWithRange.
StreamFromByteWithRange(w, data, size, key, iv, byteRange) ==
  LET range == parseByteRange(byteRange, size) IN
  IF range.err # "nil" THEN Return(w, range.err, NoIV)
  ELSE LET adjusted == adjustIVForOffset(iv, range.start) IN
    IF adjusted.panic THEN Return(w, "panic", NoIV)
    ELSE LET block == NewCipher(key) IN
      IF block.err # "nil" THEN Return(w, block.err, adjusted.newIV)
      ELSE
        LET sectionReader == NewSectionReader(data, range.start, range.length)
            w1 == IF byteRange # <<>>
                    THEN HeaderSet(WriteHeader(w, StatusPartialContent), "Content-Range",
                                   SprintfContentRange(range.start,
                                                       (range.start + range.length) - 1,
                                                       size))
                    ELSE WriteHeader(w, StatusOK)
            w2 == HeaderSet(w1, "Content-Type", OctetStream)
        IN Return(Copy(w2, XORKeyStream(block.key, adjusted.newIV, sectionReader)),
                  "nil", adjusted.newIV)

\* ------------------------------------------------------------------ inputs

Nonce == <<1, 2, 3, 4, 5, 6, 7, 8>>

\* 16-byte IVs: the tests' two, counters at and next to 2^64-1, the all-ones
\* block; and one IV of the wrong length.
IVs ==
  { Zeros(16), Zeros(15) \o <<1>>, Nonce \o Zeros(7) \o <<255>>,
    Nonce \o Ones(8), Nonce \o Ones(7) \o <<254>>, Ones(16), Zeros(12) }

\* The IVs the remote ranged relay is called with.
UrlIVs == { Zeros(16), Nonce \o Ones(8), Zeros(12) }

Key(n) == [i \in 1..n |-> ((i * 13) + 7) % 256]
\* AES-256 and AES-128 keys, and one of a length AES rejects.
Keys == { Key(32), Key(16), Key(5) }

Data(n) == [i \in 1..n |-> ((i * 37) + 11) % 256]
Sizes == { 0, 26, MaxSize }

\* Positions used for range starts and ends.
Nums == { 0, 5, 16, 20, 25, 26, 32, MaxSize - 1, MaxSize }

RangeHeader(start, end) == BytesEq \o FormatInt(start) \o <<"-">> \o FormatInt(end)

\* Range headers: none, bytes=<s>-<e>, and malformed ones.
Headers ==
  { <<>> } \cup { RangeHeader(a, b) : a \in Nums, b \in Nums } \cup
  { BytesEq,
    BytesEq \o <<"5">>,
    BytesEq \o <<"5", "-">>,
    BytesEq \o <<"-", "5">>,
    BytesEq \o <<"5", "-", "x">>,
    BytesEq \o <<"x", "-", "5">>,
    BytesEq \o <<"1", "6", "-", "2", "x">>,
    BytesEq \o <<"+", "5", "-", "2", "0">>,
    BytesEq \o <<"0", "5", "-", "+", "2", "0">>,
    BytesEq \o <<"5", "-", "2", "0", " ">>,
    BytesEq \o <<"0", "-", "5", ",", "1", "0", "-", "1", "5">>,
    BytesEq \o <<"0", "-", "5", "-", "9">>,
    BytesEq \o <<"-", "5", "-", "9">>,
    <<" ">> \o RangeHeader(5, 20),
    <<"5", "-", "2", "0">>,
    <<"i", "t", "e", "m", "s", "=", "5", "-", "2", "0">>,
    <<"b", "y", "t", "e", "s">> }

\* Byte offsets handed to adjustIVForOffset directly.
Offsets ==
  { 0, 5, 15, 16, 17, 32, 4080, 4096, 1048576, 16777216, 2147483647 }

\* ---------------------------------------------------------------- upstream

NoReply ==
  [err |-> "nil", StatusCode |-> 0, ContentRange |-> <<>>,
   ContentLengthHeader |-> <<>>, ContentLength |-> -1, first |-> 0, Body |-> <<>>]

\* A 200 reply carrying the whole resource; without a Content-Length header
\* (chunked) http.Response.ContentLength is -1.
Whole(data, declared) ==
  [NoReply EXCEPT !.StatusCode = StatusOK,
                  !.ContentLengthHeader = IF declared THEN FormatInt(Len(data)) ELSE <<>>,
                  !.ContentLength = IF declared THEN Len(data) ELSE -1,
                  !.Body = data]

\* A 206 reply carrying bytes a..b of the resource; total is the text after
\* the slash of its Content-Range.
Partial(data, a, b, total, declared) ==
  [NoReply EXCEPT !.StatusCode = StatusPartialContent,
                  !.ContentRange = BytesSp \o FormatInt(a) \o <<"-">> \o FormatInt(b)
                                   \o <<"/">> \o total,
                  !.ContentLengthHeader = IF declared THEN FormatInt((b - a) + 1) ELSE <<>>,
                  !.ContentLength = IF declared THEN (b - a) + 1 ELSE -1,
                  !.first = a,
                  !.Body = SubSeq(data, a + 1, b + 1)]

Min(a, b) == IF a < b THEN a ELSE b

\* The replies upstream may give to a GET for the resource data that carried
\* byteRange: a transport failure; the whole resource (range ignored or not
\* given); for a satisfiable bytes=<a>-<b>, that range (its end cut at the
\* resource's end), with or without Content-Length, with the total size or
\* with "*"; or a range with other boundaries than asked for.
Replies(data, byteRange) ==
  LET size == Len(data)
      parts == Split(TrimPrefix(byteRange, BytesEq), "-")
      isRange == /\ HasPrefix(byteRange, BytesEq) /\ Len(parts) = 2
                 /\ \A i \in 1..2 : /\ parts[i] # <<>>
                                    /\ \A j \in 1..Len(parts[i]) : IsDigit(parts[i][j])
      a == DecimalValue(parts[1], 0)
      b == Min(DecimalValue(parts[2], 0), size - 1)
  IN { [NoReply EXCEPT !.err = "Get: connection refused"],
       Whole(data, TRUE), Whole(data, FALSE) } \cup
     ( IF isRange /\ a <= b
         THEN { Partial(data, a, b, FormatInt(size), TRUE),
                Partial(data, a, b, FormatInt(size), FALSE),
                Partial(data, a, b, <<"*">>, TRUE),
                Partial(data, 0, b, FormatInt(size), TRUE) }
         ELSE {} )

\* ------------------------------------------------------------- the machine

\* op is the function last called, arg its arguments, w the sink it was
\* given as the call left it, err what it returned, ret its other results.
\* Every call is a request of its own: nothing is carried from one call to
\* the next.
VARIABLES op, arg, w, err, ret

vars == <<op, arg, w, err, ret>>

NoArg ==
  [key |-> <<>>, iv |-> <<>>, data |-> <<>>, size |-> 0, byteRange |-> <<>>,
   resp |-> NoReply, offset |-> 0]

NoRet ==
  [start |-> 0, length |-> 0, val |-> 0, newIV |-> <<>>, originalIV |-> <<>>,
   adjustedIV |-> <<>>]

Init ==
  /\ op = "none"
  /\ arg = NoArg
  /\ w = NewRecorder
  /\ err = "nil"
  /\ ret = NoRet

Relayed(r) ==
  /\ w' = r.w
  /\ err' = r.err
  /\ ret' = [NoRet EXCEPT !.adjustedIV = r.adjustedIV]

CallAdjustIVForOffset ==
  /\ op = "none"
  /\ \E iv \in IVs, offset \in Offsets :
    LET r == adjustIVForOffset(iv, offset) IN
    /\ op' = "adjustIVForOffset"
    /\ arg' = [NoArg EXCEPT !.iv = iv, !.offset = offset]
    /\ w' = NewRecorder
    /\ err' = IF r.panic THEN "panic" ELSE "nil"
    /\ ret' = [NoRet EXCEPT !.newIV = r.newIV, !.originalIV = r.originalIV]

CallParseRangeOffset ==
  /\ op = "none"
  /\ \E h \in Headers :
    LET r == parseRangeOffset(h) IN
    /\ op' = "parseRangeOffset"
    /\ arg' = [NoArg EXCEPT !.byteRange = h]
    /\ w' = NewRecorder
    /\ err' = r.err
    /\ ret' = [NoRet EXCEPT !.val = r.val]

CallParseByteRange ==
  /\ op = "none"
  /\ \E h \in Headers, size \in Sizes :
    LET r == parseByteRange(h, size) IN
    /\ op' = "parseByteRange"
    /\ arg' = [NoArg EXCEPT !.byteRange = h, !.size = size]
    /\ w' = NewRecorder
    /\ err' = r.err
    /\ ret' = [NoRet EXCEPT !.start = r.start, !.length = r.length]

CallStreamFromUrl ==
  /\ op = "none"
  /\ \E key \in Keys, iv \in IVs, size \in Sizes :
    \E resp \in Replies(Data(size), <<>>) :
      /\ op' = "StreamFromUrl"
      /\ arg' = [NoArg EXCEPT !.key = key, !.iv = iv, !.data = Data(size),
                              !.size = size, !.resp = resp]
      /\ Relayed(StreamFromUrl(NewRecorder, resp, key, iv))

CallStreamFromUrlWithRange ==
  /\ op = "none"
  /\ \E key \in Keys, iv \in UrlIVs, size \in Sizes, h \in Headers :
    \E resp \in Replies(Data(size), h) :
      /\ op' = "StreamFromUrlWithRange"
      /\ arg' = [NoArg EXCEPT !.key = key, !.iv = iv, !.data = Data(size),
                              !.size = size, !.byteRange = h, !.resp = resp]
      /\ Relayed(StreamFromUrlWithRange(NewRecorder, resp, key, iv, h))

CallStreamFromByte ==
  /\ op = "none"
  /\ \E key \in Keys, iv \in IVs, size \in Sizes :
    /\ op' = "StreamFromByte"
    /\ arg' = [NoArg EXCEPT !.key = key, !.iv = iv, !.data = Data(size), !.size = size]
    /\ Relayed(StreamFromByte(NewRecorder, Data(size), size, key, iv))

CallStreamFromByteWithRange ==
  /\ op = "none"
  /\ \E key \in Keys, iv \in IVs, size \in Sizes, h \in Headers :
    /\ op' = "StreamFromByteWithRange"
    /\ arg' = [NoArg EXCEPT !.key = key, !.iv = iv, !.data = Data(size),
                            !.size = size, !.byteRange = h]
    /\ Relayed(StreamFromByteWithRange(NewRecorder, Data(size), size, key, iv, h))

\* The call has returned and its caller is done with the results: all of a
\* request's values are discarded, and the next request starts afresh.
Finish ==
  /\ op # "none"
  /\ op' = "none"
  /\ arg' = NoArg
  /\ w' = NewRecorder
  /\ err' = "nil"
  /\ ret' = NoRet

Next ==
  \/ Finish
  \/ CallAdjustIVForOffset
  \/ CallParseRangeOffset
  \/ CallParseByteRange
  \/ CallStreamFromUrl
  \/ CallStreamFromUrlWithRange
  \/ CallStreamFromByte
  \/ CallStreamFromByteWithRange

Spec == Init /\ [][Next]_vars

TypeOK ==
  /\ op \in {"none", "adjustIVForOffset", "parseRangeOffset", "parseByteRange",
             "StreamFromUrl", "StreamFromUrlWithRange", "StreamFromByte",
             "StreamFromByteWithRange"}
  /\ w.status \in {0, StatusOK, StatusPartialContent}
  /\ \A i \in 1..Len(w.body) : w.body[i] \in 0..255

\* ------------------------------------------------------------------ claims

RECURSIVE PlusMod64(_, _, _)
\* b + n modulo 2^64 on the big-endian bytes b of an unsigned 64-bit value:
\* schoolbook addition from byte i (the last) down, the final carry dropped.
PlusMod64(b, n, i) ==
  IF i = 0 THEN b
  ELSE LET sum == b[i] + n
       IN PlusMod64([b EXCEPT ![i] = sum % 256], sum \div 256, i - 1)

\* C3: for a 16-byte IV and an offset >= 0, adjustIVForOffset returns 16
\* bytes whose first 8 are the IV's first 8 and whose last 8 are, as a
\* big-endian unsigned 64-bit integer, (counter(iv) + floor(offset / 16))
\* mod 2^64; at offset 0 the result is the IV; the argument is not modified.
C3_AdjustIV ==
  (op = "adjustIVForOffset" /\ Len(arg.iv) = 16) =>
    /\ err = "nil"
    /\ Len(ret.newIV) = 16
    /\ SubSeq(ret.newIV, 1, 8) = SubSeq(arg.iv, 1, 8)
    /\ SubSeq(ret.newIV, 9, 16) =
         PlusMod64(SubSeq(arg.iv, 9, 16), arg.offset \div 16, 8)
    /\ (arg.offset = 0 => ret.newIV = arg.iv)
    /\ ret.originalIV = arg.iv

\* C3's case: a counter of 2^64-1 advanced by two blocks wraps to 1, the
\* nonce untouched.
C3_Witness ==
  /\ op = "adjustIVForOffset"
  /\ arg.iv = Nonce \o Ones(8)
  /\ arg.offset = 32
  /\ ret.newIV = Nonce \o Zeros(7) \o <<1>>

\* The texts strconv.ParseInt reads as the non-negative integer n that occur
\* among the inputs: its decimal digits, alone, after a + or after a 0.
IntTexts(n) == { FormatInt(n), <<"+">> \o FormatInt(n), <<"0">> \o FormatInt(n) }

\* The (start, end) pairs a header denotes as bytes=<start>-<end>.
SingleRanges(h) ==
  { p \in (0..MaxSize) \X (0..MaxSize) :
      \E fs \in IntTexts(p[1]), fe \in IntTexts(p[2]) :
        h = BytesEq \o fs \o <<"-">> \o fe }

\* C4: parseByteRange(header, size) succeeds exactly when header is empty,
\* giving (0, size), or is bytes=<start>-<end> with integers
\* 0 <= start <= end < size, giving (start, end - start + 1); every other
\* header gives an error and no range.
C4_ParseByteRange ==
  op = "parseByteRange" =>
    LET fit == { p \in SingleRanges(arg.byteRange) : p[1] <= p[2] /\ p[2] < arg.size }
    IN IF arg.byteRange = <<>>
         THEN err = "nil" /\ ret.start = 0 /\ ret.length = arg.size
       ELSE IF fit # {}
         THEN /\ err = "nil"
              /\ \A p \in fit : ret.start = p[1] /\ ret.length = (p[2] - p[1]) + 1
       ELSE err # "nil" /\ ret.start = 0 /\ ret.length = 0

\* C4's case: the range that ends at the resource's last byte is accepted.
C4_Witness ==
  /\ op = "parseByteRange"
  /\ arg.byteRange = RangeHeader(5, 25)
  /\ arg.size = 26
  /\ err = "nil" /\ ret.start = 5 /\ ret.length = 21

\* C10: parseRangeOffset(header) returns 0 without error for the empty
\* header, start for a header bytes=<start>-<end>, and an error for every
\* other non-empty header.
C10_ParseRangeOffset ==
  op = "parseRangeOffset" =>
    IF arg.byteRange = <<>> THEN err = "nil" /\ ret.val = 0
    ELSE IF SingleRanges(arg.byteRange) # {}
      THEN err = "nil" /\ \A p \in SingleRanges(arg.byteRange) : ret.val = p[1]
    ELSE err # "nil"

Relays == {"StreamFromUrl", "StreamFromUrlWithRange", "StreamFromByte",
           "StreamFromByteWithRange"}

\* The errors of range validation and of cipher construction.
RangeErrors ==
  {"invalid range header", "invalid range format", "invalid start byte",
   "invalid end byte", "range out of bounds", "Invalid range format.",
   "strconv.ParseInt: invalid syntax"}
CipherErrors == {"crypto/aes: invalid key size"}

\* C5: when a relay returns a range-validation or a cipher-construction
\* error, the sink is untouched: no status written, no header set, no body
\* byte written.
C5_ErrorLeavesSinkUntouched ==
  (op \in Relays /\ err \in RangeErrors \cup CipherErrors) =>
    /\ ~w.wroteHeader
    /\ w.status = 0
    /\ w.header = NoHeaders
    /\ w.body = <<>>

\* C5's case: a range whose end is the resource's size is refused by the
\* local ranged relay.
C5_Witness ==
  /\ op = "StreamFromByteWithRange"
  /\ arg.byteRange = RangeHeader(0, 26)
  /\ arg.size = 26
  /\ Len(arg.key) = 32
  /\ err = "range out of bounds"
  /\ w = NewRecorder

\* C6: every header a relay sets is set before the sink commits the
\* status/header block, so the committed block holds all of them, the
\* Content-Type among them.
C6_HeadersBeforeCommit ==
  (op \in Relays /\ err = "nil" /\ w.wroteHeader) =>
    /\ w.sent = w.header
    /\ w.sent["Content-Type"] # <<>>

\* The (offset, length) a relay's arguments ask for: the whole resource
\* without a Range header, else the bytes=<start>-<end> ranges inside it.
Asked ==
  IF arg.byteRange = <<>>
    THEN { <<0, arg.size>> }
    ELSE { <<p[1], (p[2] - p[1]) + 1>> :
             p \in { q \in SingleRanges(arg.byteRange) : q[1] <= q[2] /\ q[2] < arg.size } }

\* The source bytes [offset, offset+length).
Slice(data, offset, length) == SubSeq(data, offset + 1, offset + length)

\* Upstream sent exactly the bytes [offset, offset+length) of the resource.
Delivered(offset, length) ==
  arg.resp.first = offset /\ arg.resp.Body = Slice(arg.data, offset, length)

\* C7: a relay that completes without error for a satisfiable range (or
\* none) writes exactly length bytes, and XOR-ing them with a fresh CTR
\* keystream of the same key and adjustIVForOffset(iv, offset) gives the
\* source bytes [offset, offset+length).  (For the remote relays the source
\* is what upstream delivered for the request.)
C7_RoundTrip ==
  (op \in Relays /\ err = "nil") =>
    \A p \in Asked :
      (op \in {"StreamFromUrl", "StreamFromUrlWithRange"} => Delivered(p[1], p[2])) =>
        /\ Len(w.body) = p[2]
        /\ XORKeyStream(arg.key, adjustIVForOffset(arg.iv, p[1]).newIV, w.body)
             = Slice(arg.data, p[1], p[2])

\* C7's case: the tests' range bytes=5-20 of a 26-byte resource, relayed
\* from the local source.
C7_Witness ==
  /\ op = "StreamFromByteWithRange"
  /\ arg.byteRange = RangeHeader(5, 20)
  /\ arg.size = 26
  /\ err = "nil"
  /\ Len(w.body) = 16
  /\ w.body # Slice(arg.data, 5, 16)

\* The stream the full local relay delivers for a call's resource, key and IV.
FullStream == StreamFromByte(NewRecorder, arg.data, arg.size, arg.key, arg.iv).w.body

\* C1: for every 16-byte IV and every range that starts at a multiple of 16,
\* the bytes StreamFromByteWithRange delivers are the bytes at the same
\* positions of the stream StreamFromByte delivers for the whole resource.
C1_AlignedRangeMatchesFull ==
  (op = "StreamFromByteWithRange" /\ err = "nil") =>
    \A p \in Asked : p[1] % BlockSize = 0 => w.body = Slice(FullStream, p[1], p[2])

\* C2: for every satisfiable range, aligned or not, the bytes the ranged
\* relay delivers are bytes start..end of the stream the full relay delivers.
C2_AnyRangeMatchesFull ==
  (op = "StreamFromByteWithRange" /\ err = "nil") =>
    \A p \in Asked : w.body = Slice(FullStream, p[1], p[2])

\* iv with its counter advanced by floor(offset / 16) modulo 2^64.
Advanced(iv, offset) ==
  SubSeq(iv, 1, 8) \o PlusMod64(SubSeq(iv, 9, 16), offset \div BlockSize, 8)

\* C8: in the remote ranged relay the IV used for the XOR transform has the
\* counter counter(iv) + floor(a / 16), a being the resource offset of the
\* first body byte upstream sends.
C8_KeystreamFollowsDelivered ==
  (op = "StreamFromUrlWithRange" /\ err = "nil" /\ arg.resp.Body # <<>>) =>
    ret.adjustedIV = Advanced(arg.iv, arg.resp.first)

\* C9: in the remote ranged relay, a 206 reply has Content-Length n and
\* Content-Range bytes <offset>-<offset+n-1>/<total> with
\* offset <= offset+n-1 < total, and a 200 reply has Content-Length n, n
\* being the number of body bytes upstream sends.
C9_MetadataMatchesBody ==
  (op = "StreamFromUrlWithRange" /\ err = "nil") =>
    LET n == Len(arg.resp.Body) IN
    /\ w.sent["Content-Length"] = FormatInt(n)
    /\ w.status = StatusPartialContent =>
         \E offset \in 0..MaxSize, total \in 0..MaxSize :
           /\ w.sent["Content-Range"] = SprintfContentRange(offset, (offset + n) - 1, total)
           /\ offset <= (offset + n) - 1
           /\ (offset + n) - 1 < total

====
